---------------------------- MODULE Spec2Model ----------------------------
(***************************************************************************)
(* The history state machine of src/src/useUndoRedo.ts.                    *)
(*                                                                         *)
(* The hook keeps one UndoRedoState (past, present, future, isCompressed,  *)
(* isBatching) and four mutable refs (batchCountRef, batchInitialValueRef, *)
(* batchLastValueRef, errorInWithBatchRef).  Every operation of the hook   *)
(* is a state updater handed to setState; an updater is modelled by an     *)
(* operator from an engine record (state + refs + callbacks fired) to an   *)
(* engine record, and the operation applies it when it is called           *)
(* (spec.md section 5: operations run to completion before returning).     *)
(*                                                                         *)
(* JavaScript values are records [t, n, s, id]: a number n, a string s,    *)
(* null, or a plain object {id, count} (count kept in n).  Objects are     *)
(* modelled by content; their reference identity is accounted for in       *)
(* defaultEquals.  JSON texts are TLA+ strings.                            *)
(***************************************************************************)
EXTENDS Integers, Sequences, FiniteSets, TLC

(***************************************************************************)
(* Bounds of the model.                                                    *)
(***************************************************************************)
MaxPast == 2        \* longest past sequence explored
MaxDepth == 2       \* largest batchCountRef explored
MaxCap == 1         \* largest maxHistorySize option explored
MaxWb == 1          \* deepest nesting of running withBatch calls explored

(***************************************************************************)
(* JavaScript values.                                                      *)
(***************************************************************************)
Num(n) == [t |-> "number", n |-> n, s |-> "", id |-> 0]
Str(s) == [t |-> "string", n |-> 0, s |-> s, id |-> 0]
Null == [t |-> "null", n |-> 0, s |-> "", id |-> 0]
Obj(i, c) == [t |-> "object", n |-> c, s |-> "", id |-> i]

\* The values a caller passes, by the engine's type parameter T:
\* "prim" is number | string, "obj" and "row" are objects {id, count}.
PrimVals == {Num(0), Str("a")}
ObjVals == {Obj(1, 0), Obj(2, 0)}
RowVals == {Obj(1, 0), Obj(1, 1), Obj(2, 0)}
Vals(ty) ==
    CASE ty = "prim" -> PrimVals
      [] ty = "obj" -> ObjVals
      [] OTHER -> RowVals
AllVals == PrimVals \cup ObjVals \cup RowVals \cup {Null}

\* JavaScript truthiness, as used by !x and x && y on a value.
Truthy(v) ==
    CASE v.t = "number" -> v.n # 0
      [] v.t = "string" -> v.s # ""
      [] v.t = "null" -> FALSE
      [] OTHER -> TRUE

\* options.maxHistorySize left undefined.
Undefined == -1

(***************************************************************************)
(* Snapshot codec: JSON.stringify / JSON.parse, structuredClone.           *)
(***************************************************************************)
JSONstringify(v) ==
    CASE v.t = "number" -> ToString(v.n)
      [] v.t = "string" -> "\"" \o v.s \o "\""
      [] v.t = "null" -> "null"
      [] OTHER -> "{\"id\":" \o ToString(v.id) \o ",\"count\":" \o ToString(v.n) \o "}"

\* JSON.parse on the texts of the model: the value whose text it is, or a
\* SyntaxError (ok = FALSE) when the text is no JSON text.
JSONparse(text) ==
    IF \E v \in AllVals : JSONstringify(v) = text
    THEN [ok |-> TRUE, value |-> CHOOSE v \in AllVals : JSONstringify(v) = text]
    ELSE [ok |-> FALSE, value |-> Null]

\* structuredClone keeps the content of a value; the clone of an object is a
\* new reference (see defaultEquals).
safeStructuredClone(obj) == obj

compress(data) == Str(JSONstringify(data))

decompress_keepsText(compressed) == compressed

decompress(compressed) ==
    LET r == JSONparse(compressed.s)
    IN  IF r.ok THEN r.value ELSE compressed

compressFn(compressHistory, data) ==
    IF compressHistory THEN compress(data) ELSE safeStructuredClone(data)

decompressFn(stored, stateIsCompressed) ==
    IF stored.t # "string" THEN stored
    ELSE IF stateIsCompressed THEN decompress(stored)
    ELSE stored

(***************************************************************************)
(* Equality.  Every value the engine holds (present, the entries of past   *)
(* and future, the batch refs) is a clone of its own, so two objects the   *)
(* engine compares with === are never the same reference; a caller can     *)
(* pass the present object itself to set (sameRef).                        *)
(***************************************************************************)
defaultEquals(a, b) == a.t # "object" /\ a = b

byId(a, b) == a.id = b.id

isEqual(equalFn, a, b) ==
    IF equalFn = "byId" THEN byId(a, b) ELSE defaultEquals(a, b)

\* equalFn(prev.present, newValue) in set.
equalsPresent(equalFn, present, newValue, sameRef) ==
    sameRef \/ isEqual(equalFn, present, newValue)

(***************************************************************************)
(* Eviction: maxHistorySize && newPast.length > maxHistorySize             *)
(*             ? newPast.slice(-maxHistorySize) : newPast                  *)
(***************************************************************************)
limitedPast_keepsOldest(newPast, maxHistorySize) ==
    IF maxHistorySize # Undefined /\ maxHistorySize # 0
       /\ Len(newPast) > maxHistorySize
    THEN SubSeq(newPast, 1, maxHistorySize)
    ELSE newPast

limitedPast(newPast, maxHistorySize) ==
    IF maxHistorySize # Undefined /\ maxHistorySize # 0
       /\ Len(newPast) > maxHistorySize
    THEN SubSeq(newPast, Len(newPast) - maxHistorySize + 1, Len(newPast))
    ELSE newPast

Callback_swapped(name, prevState, nextState) ==
    [cb |-> name, prev |-> nextState, next |-> prevState]

Callback(name, prevState, nextState) ==
    [cb |-> name, prev |-> prevState, next |-> nextState]

VARIABLES
    T,                      \* the engine's value type: "prim", "obj" or "row"
    options,                \* maxHistorySize, equalFn, compressHistory
    state,                  \* UndoRedoState
    batchCountRef,
    batchInitialValueRef,
    batchLastValueRef,
    errorInWithBatchRef,
    wbDepth,                \* withBatch calls whose fn is running
    fired,                  \* callbacks invoked by the last operation
    watch,                  \* which observation this behaviour records
    last,                   \* the last operation and what it found
    bt,                     \* observation of the batch opened from a state
                            \* with no batch open
    setRun                  \* observation of consecutive set calls outside
                            \* a batch

\* The engine as one record: the argument and result of the updaters.
Engine ==
    [state |-> state,
     batchCountRef |-> batchCountRef,
     batchInitialValueRef |-> batchInitialValueRef,
     batchLastValueRef |-> batchLastValueRef,
     errorInWithBatchRef |-> errorInWithBatchRef,
     fired |-> <<>>]

(***************************************************************************)
(* The updaters.                                                           *)
(***************************************************************************)
\* set while prev.isBatching: the batch absorbs the change.
setInBatch_keepsFuture(e, o, newValue) ==
    [e EXCEPT !.batchLastValueRef = safeStructuredClone(newValue),
              !.state.present = safeStructuredClone(newValue)]

setInBatch(e, o, newValue) ==
    LET prev == e.state
    IN  IF e.errorInWithBatchRef /\ Truthy(e.batchInitialValueRef) THEN
            [e EXCEPT
                !.batchLastValueRef = safeStructuredClone(newValue),
                !.state = [past |-> Append(prev.past,
                                    compressFn(o.compressHistory, e.batchInitialValueRef)),
                           present |-> safeStructuredClone(newValue),
                           future |-> <<>>,
                           isCompressed |-> o.compressHistory,
                           isBatching |-> TRUE]]
        ELSE
            [e EXCEPT
                !.batchLastValueRef = safeStructuredClone(newValue),
                !.state = [prev EXCEPT !.present = safeStructuredClone(newValue),
                                       !.future = <<>>]]

\* set with no batch open: a history entry and the onSet callback.
setCommitted_storesNewValue(e, o, newValue) ==
    LET prev == e.state
    IN  [e EXCEPT
            !.fired = Append(e.fired, Callback("onSet", prev.present, newValue)),
            !.state = [past |-> limitedPast(Append(prev.past,
                                    compressFn(o.compressHistory, newValue)),
                                    o.maxHistorySize),
                       present |-> safeStructuredClone(newValue),
                       future |-> <<>>,
                       isCompressed |-> o.compressHistory,
                       isBatching |-> FALSE]]

setCommitted(e, o, newValue) ==
    LET prev == e.state
    IN  [e EXCEPT
            !.fired = Append(e.fired, Callback("onSet", prev.present, newValue)),
            !.state = [past |-> limitedPast(Append(prev.past,
                                    compressFn(o.compressHistory, prev.present)),
                                    o.maxHistorySize),
                       present |-> safeStructuredClone(newValue),
                       future |-> <<>>,
                       isCompressed |-> o.compressHistory,
                       isBatching |-> FALSE]]

set(e, o, newValue, sameRef) ==
    IF equalsPresent(o.equalFn, e.state.present, newValue, sameRef) THEN e
    ELSE IF e.state.isBatching THEN setInBatch(e, o, newValue)
    ELSE setCommitted(e, o, newValue)

undo_keepsBatching(e) ==
    LET prev == e.state
        lastIndex == Len(prev.past)
        previous == decompressFn(prev.past[lastIndex], prev.isCompressed)
    IN  IF Len(prev.past) = 0 THEN e
        ELSE
            [e EXCEPT
                !.fired = Append(e.fired, Callback("onUndo", prev.present, previous)),
                !.state = [past |-> SubSeq(prev.past, 1, lastIndex - 1),
                           present |-> previous,
                           future |-> <<compressFn(prev.isCompressed, prev.present)>>
                                        \o prev.future,
                           isCompressed |-> prev.isCompressed,
                           isBatching |-> prev.isBatching]]

undo_appendsToFuture(e) ==
    LET prev == e.state
        lastIndex == Len(prev.past)
        previous == decompressFn(prev.past[lastIndex], prev.isCompressed)
    IN  IF Len(prev.past) = 0 THEN e
        ELSE
            [e EXCEPT
                !.fired = Append(e.fired, Callback("onUndo", prev.present, previous)),
                !.state = [past |-> SubSeq(prev.past, 1, lastIndex - 1),
                           present |-> previous,
                           future |-> Append(prev.future,
                                        compressFn(prev.isCompressed, prev.present)),
                           isCompressed |-> prev.isCompressed,
                           isBatching |-> FALSE]]

undo(e) ==
    LET prev == e.state
        lastIndex == Len(prev.past)
        previous == decompressFn(prev.past[lastIndex], prev.isCompressed)
    IN  IF Len(prev.past) = 0 THEN e
        ELSE
            [e EXCEPT
                !.fired = Append(e.fired, Callback("onUndo", prev.present, previous)),
                !.state = [past |-> SubSeq(prev.past, 1, lastIndex - 1),
                           present |-> previous,
                           future |-> <<compressFn(prev.isCompressed, prev.present)>>
                                        \o prev.future,
                           isCompressed |-> prev.isCompressed,
                           isBatching |-> FALSE]]

redo_skipsPast(e) ==
    LET prev == e.state
        next == decompressFn(prev.future[1], prev.isCompressed)
    IN  IF Len(prev.future) = 0 THEN e
        ELSE
            [e EXCEPT
                !.fired = Append(e.fired, Callback("onRedo", prev.present, next)),
                !.state = [past |-> prev.past,
                           present |-> next,
                           future |-> Tail(prev.future),
                           isCompressed |-> prev.isCompressed,
                           isBatching |-> FALSE]]

redo_takesLast(e) ==
    LET prev == e.state
        next == decompressFn(prev.future[Len(prev.future)], prev.isCompressed)
    IN  IF Len(prev.future) = 0 THEN e
        ELSE
            [e EXCEPT
                !.fired = Append(e.fired, Callback("onRedo", prev.present, next)),
                !.state = [past |-> Append(prev.past,
                                        compressFn(prev.isCompressed, prev.present)),
                           present |-> next,
                           future |-> SubSeq(prev.future, 1, Len(prev.future) - 1),
                           isCompressed |-> prev.isCompressed,
                           isBatching |-> FALSE]]

redo(e) ==
    LET prev == e.state
        next == decompressFn(prev.future[1], prev.isCompressed)
    IN  IF Len(prev.future) = 0 THEN e
        ELSE
            [e EXCEPT
                !.fired = Append(e.fired, Callback("onRedo", prev.present, next)),
                !.state = [past |-> Append(prev.past,
                                        compressFn(prev.isCompressed, prev.present)),
                           present |-> next,
                           future |-> Tail(prev.future),
                           isCompressed |-> prev.isCompressed,
                           isBatching |-> FALSE]]

resetBatchState(e) ==
    [e EXCEPT !.batchCountRef = 0,
              !.batchInitialValueRef = Null,
              !.batchLastValueRef = Null,
              !.errorInWithBatchRef = FALSE]

reset_keepsBatch(e, o, value) ==
    [e EXCEPT
        !.state = [past |-> <<>>,
                   present |-> safeStructuredClone(value),
                   future |-> <<>>,
                   isCompressed |-> o.compressHistory,
                   isBatching |-> FALSE]]

reset(e, o, value) ==
    [resetBatchState(e) EXCEPT
        !.state = [past |-> <<>>,
                   present |-> safeStructuredClone(value),
                   future |-> <<>>,
                   isCompressed |-> o.compressHistory,
                   isBatching |-> FALSE]]

startBatch(e) ==
    LET prev == e.state
        count == e.batchCountRef + 1
        e1 == IF count = 1
              THEN [e EXCEPT !.batchCountRef = count,
                             !.batchInitialValueRef = safeStructuredClone(prev.present),
                             !.batchLastValueRef = safeStructuredClone(prev.present)]
              ELSE [e EXCEPT !.batchCountRef = count]
    IN  [e1 EXCEPT !.state = [prev EXCEPT !.isBatching = TRUE]]

endBatch_alwaysDecrements(e, o) ==
    [e EXCEPT !.batchCountRef = IF @ - 1 > 0 THEN @ - 1 ELSE 0]

clearBatchValues(e) ==
    IF e.batchCountRef = 0
    THEN [e EXCEPT !.batchInitialValueRef = Null, !.batchLastValueRef = Null]
    ELSE e

endBatch(e, o) ==
    LET prev == e.state
        count == IF e.batchCountRef - 1 > 0 THEN e.batchCountRef - 1 ELSE 0
        e1 == [e EXCEPT !.batchCountRef = count]
        e2 == [e1 EXCEPT !.errorInWithBatchRef = FALSE]
        initial == e.batchInitialValueRef
        stillBatching == [prev EXCEPT !.isBatching = count > 0]
        e3 == IF Truthy(e.batchLastValueRef) /\ count = 0
              THEN [e2 EXCEPT !.fired = Append(e.fired,
                                  Callback("onSet", initial, e.batchLastValueRef))]
              ELSE e2
    IN  IF ~prev.isBatching THEN e
        ELSE IF count > 0 /\ ~e.errorInWithBatchRef THEN e1
        ELSE IF ~Truthy(initial) THEN [e2 EXCEPT !.state = stillBatching]
        ELSE IF isEqual(o.equalFn, initial, prev.present)
             THEN [clearBatchValues(e2) EXCEPT !.state = stillBatching]
        ELSE IF Len(prev.past) = 0
                \/ ~isEqual(o.equalFn,
                            decompressFn(prev.past[Len(prev.past)], prev.isCompressed),
                            initial)
             THEN [clearBatchValues(e3) EXCEPT
                      !.state = [past |-> limitedPast(Append(prev.past,
                                              compressFn(o.compressHistory, initial)),
                                              o.maxHistorySize),
                                 present |-> prev.present,
                                 future |-> <<>>,
                                 isCompressed |-> o.compressHistory,
                                 isBatching |-> count > 0]]
        ELSE [clearBatchValues(e3) EXCEPT !.state = stillBatching]

\* withBatch after fn returned or threw: the catch block, then finally.
withBatchExit(e, o, threw) ==
    endBatch([e EXCEPT !.errorInWithBatchRef = threw \/ e.errorInWithBatchRef], o)

\* endBatch's updater when the caller's equalFn throws at its call-th call in
\* the updater (1: line 319, 2: line 337): what the updater wrote to the refs
\* and the callback it invoked before the call stay, the state it would have
\* returned is lost.  An updater that returns before that call ends as
\* endBatch does.
endBatchEqualFnThrows(e, o, call) ==
    LET prev == e.state
        count == IF e.batchCountRef - 1 > 0 THEN e.batchCountRef - 1 ELSE 0
        e2 == [e EXCEPT !.batchCountRef = count, !.errorInWithBatchRef = FALSE]
        initial == e.batchInitialValueRef
        e3 == IF Truthy(e.batchLastValueRef) /\ count = 0
              THEN [e2 EXCEPT !.fired = Append(e.fired,
                                  Callback("onSet", initial, e.batchLastValueRef))]
              ELSE e2
        firstCall == /\ prev.isBatching
                     /\ ~(count > 0 /\ ~e.errorInWithBatchRef)
                     /\ Truthy(initial)
        secondCall == /\ firstCall
                      /\ ~isEqual(o.equalFn, initial, prev.present)
                      /\ Len(prev.past) > 0
    IN  IF call = 1 /\ firstCall THEN e2
        ELSE IF call = 2 /\ secondCall THEN e3
        ELSE endBatch(e, o)

\* withBatch after fn threw, with such an equalFn.
withBatchExitEqualFnThrows(e, o, call) ==
    endBatchEqualFnThrows([e EXCEPT !.errorInWithBatchRef = TRUE], o, call)

\* The argument withBatch hands to fn: state.present of the render in which
\* this withBatch callback was created (its dependency list holds
\* state.present), whatever the updaters have done since.
withBatchFnArgument(rendered) == rendered.present

(***************************************************************************)
(* Queries of the returned handle.                                         *)
(***************************************************************************)
canUndo == Len(state.past) > 0
canRedo == Len(state.future) > 0

\* history.past / history.future as the lazy view decodes them.
createLazyArray(items, stateIsCompressed) ==
    [i \in 1..Len(items) |-> decompressFn(items[i], stateIsCompressed)]

\* The Proxy over a stored array, by the way it is read.  Its handler has one
\* trap, get: "length" gives the stored length; a numeric key gives the
\* decoded element; map, forEach, filter and slice run on the decoded
\* array; any other key, the iterator symbol of for-of and spread included,
\* gives the Array method itself (Reflect.get), which reads length and the
\* numeric keys through the Proxy.  A read of a property descriptor meets
\* no trap and gives the stored element.
lazyLength(items) == Len(items)

lazyIndex_stored(items, stateIsCompressed, i) == items[i]

lazyIndex(items, stateIsCompressed, i) == decompressFn(items[i], stateIsCompressed)

lazyMethod(items, stateIsCompressed) ==
    [i \in 1..Len(items) |-> decompressFn(items[i], stateIsCompressed)]

lazyIterate(items, stateIsCompressed) ==
    [i \in 1..lazyLength(items) |-> lazyIndex(items, stateIsCompressed, i)]

lazyOwnProperty(items, i) == items[i]

historyPast(st) == createLazyArray(st.past, st.isCompressed)
historyFuture(st) == createLazyArray(st.future, st.isCompressed)

(***************************************************************************)
(* Construction: useUndoRedo(initialValue, options).                       *)
(***************************************************************************)
\* sets: "none" (no set call in the batch), "noop" (set calls, each with a
\* value equal to present) or "eff" (a set call changed present, lastSet is
\* the value of the last such call).
NoBatch ==
    [phase |-> "idle", by |-> "none", base |-> Null, past0 |-> <<>>,
     sets |-> "none", lastSet |-> Null, pure |-> TRUE, cbs |-> <<>>,
     threw |-> FALSE]

\* len0: the length of past when the run began; priors: the values that
\* were present before each set of the run, the last RunKept of them.
NoRun == [len0 |-> 0, priors |-> <<>>]
Unobserved == [op |-> "none", noop |-> FALSE, canRedo |-> FALSE]
RunKept == IF MaxPast > MaxCap + 1 THEN MaxPast ELSE MaxCap + 1

\* The engines explored: primitives under the default equality with every
\* encoding and cap, objects compared by reference and stored as JSON text,
\* rows compared by their id and stored as clones.
Engines ==
    [T : {"prim"}, maxHistorySize : {Undefined} \cup 0..MaxCap,
     equalFn : {"default"}, compressHistory : BOOLEAN]
    \cup [T : {"obj"}, maxHistorySize : {Undefined},
          equalFn : {"default"}, compressHistory : {TRUE}]
    \cup [T : {"row"}, maxHistorySize : {Undefined},
          equalFn : {"byId"}, compressHistory : {FALSE}]

Created(w) ==
    /\ \E g \in Engines :
        /\ T = g.T
        /\ options = [maxHistorySize |-> g.maxHistorySize,
                      equalFn |-> g.equalFn,
                      compressHistory |-> g.compressHistory]
    /\ \E initialValue \in Vals(T) :
        state = [past |-> <<>>,
                 present |-> safeStructuredClone(initialValue),
                 future |-> <<>>,
                 isCompressed |-> options.compressHistory,
                 isBatching |-> FALSE]
    /\ batchCountRef = 0
    /\ batchInitialValueRef = Null
    /\ batchLastValueRef = Null
    /\ errorInWithBatchRef = FALSE
    /\ wbDepth = 0
    /\ fired = <<>>
    /\ watch = w
    /\ last = Unobserved
    /\ bt = NoBatch
    /\ setRun = NoRun

(***************************************************************************)
(* Observation of the run: the last operation, when it is the operation   *)
(* that watch names, with the callbacks it invoked (last, fired), or an    *)
(* undo or redo called while a batch is open (watch = "inBatch"); the      *)
(* batch that was opened while no batch was open (bt, watch = "batch");    *)
(* the current run of effective set calls outside a batch (setRun, watch = *)
(* "run").  None of them is read by the engine.                            *)
(***************************************************************************)
Observed(op, noop, e) ==
    IF watch = op \/ (watch = "inBatch" /\ state.isBatching /\ op \in {"undo", "redo"})
    THEN /\ last' = [op |-> op, noop |-> noop, canRedo |-> canRedo]
         /\ fired' = e.fired
    ELSE /\ last' = Unobserved
         /\ fired' = <<>>

OnSets(cbs) == SelectSeq(cbs, LAMBDA c : c.cb = "onSet")

\* The callbacks of the observed batch, the first two kept.
Noted(cbs, more) ==
    LET all == cbs \o OnSets(more)
    IN  IF Len(all) > 2 THEN SubSeq(all, 1, 2) ELSE all

\* op is one of "open" (startBatch), "call" (withBatch calls fn), "set",
\* "end" (endBatch), "exit" (withBatch's finally), "other".
Tracked(op, arg, noop, threw, e) ==
    bt' =
      IF watch # "batch" THEN bt
      ELSE IF op \in {"open", "call"} /\ ~state.isBatching /\ bt.phase # "open"
      THEN [phase |-> "open",
            by |-> IF op = "open" THEN "startBatch" ELSE "withBatch",
            base |-> state.present, past0 |-> state.past,
            sets |-> "none", lastSet |-> Null, pure |-> TRUE, cbs |-> <<>>,
            threw |-> FALSE]
      ELSE IF bt.phase # "open" THEN NoBatch
      ELSE IF op = "set" /\ bt.pure
      THEN [bt EXCEPT !.sets = IF ~noop \/ @ = "eff" THEN "eff" ELSE "noop",
                      !.lastSet = IF noop THEN @ ELSE arg,
                      !.cbs = Noted(@, e.fired)]
      ELSE IF op = "end" /\ bt.by = "startBatch"
      THEN [bt EXCEPT !.phase = "closed", !.cbs = Noted(@, e.fired)]
      ELSE IF op = "exit" /\ bt.by = "withBatch"
      THEN [bt EXCEPT !.phase = "closed", !.threw = threw,
                      !.cbs = IF bt.pure THEN Noted(@, e.fired) ELSE @]
      ELSE IF bt.by = "withBatch"
      THEN [NoBatch EXCEPT !.phase = "open", !.by = "withBatch", !.pure = FALSE]
      ELSE NoBatch

\* An effective set outside a batch extends the run; anything else but a
\* set that changes nothing ends it.
Ran(op, noop) ==
    setRun' =
      IF watch # "run" THEN setRun
      ELSE IF op = "set" /\ ~state.isBatching /\ ~noop
      THEN LET all == Append(setRun.priors, state.present)
           IN  [len0 |-> IF setRun.priors = <<>> THEN Len(state.past) ELSE setRun.len0,
                priors |-> IF Len(all) > RunKept THEN Tail(all) ELSE all]
      ELSE IF op = "set" /\ noop THEN setRun
      ELSE NoRun

\* The operation's result becomes the engine's state.
Becomes(e) ==
    /\ Len(e.state.past) <= MaxPast
    /\ state' = e.state
    /\ batchCountRef' = e.batchCountRef
    /\ batchInitialValueRef' = e.batchInitialValueRef
    /\ batchLastValueRef' = e.batchLastValueRef
    /\ errorInWithBatchRef' = e.errorInWithBatchRef
    /\ UNCHANGED <<T, options, watch>>

Set(newValue, sameRef) ==
    LET e == set(Engine, options, newValue, sameRef)
        noop == equalsPresent(options.equalFn, state.present, newValue, sameRef)
    IN  /\ Becomes(e)
        /\ Observed("set", noop, e)
        /\ Tracked("set", newValue, noop, FALSE, e)
        /\ Ran("set", noop)
        /\ UNCHANGED wbDepth

Undo ==
    LET e == undo(Engine)
    IN  /\ Becomes(e)
        /\ Observed("undo", ~canUndo, e)
        /\ Tracked("other", Null, FALSE, FALSE, e)
        /\ Ran("undo", FALSE)
        /\ UNCHANGED wbDepth

Redo ==
    LET e == redo(Engine)
    IN  /\ Becomes(e)
        /\ Observed("redo", ~canRedo, e)
        /\ Tracked("other", Null, FALSE, FALSE, e)
        /\ Ran("redo", FALSE)
        /\ UNCHANGED wbDepth

Reset(value) ==
    LET e == reset(Engine, options, value)
    IN  /\ Becomes(e)
        /\ Observed("reset", FALSE, e)
        /\ Tracked("other", Null, FALSE, FALSE, e)
        /\ Ran("reset", FALSE)
        /\ UNCHANGED wbDepth

StartBatch ==
    LET e == startBatch(Engine)
    IN  /\ batchCountRef < MaxDepth
        /\ Becomes(e)
        /\ Observed("startBatch", FALSE, e)
        /\ Tracked("open", Null, FALSE, FALSE, e)
        /\ Ran("startBatch", FALSE)
        /\ UNCHANGED wbDepth

EndBatch ==
    LET e == endBatch(Engine, options)
    IN  /\ Becomes(e)
        /\ Observed("endBatch", ~state.isBatching, e)
        /\ Tracked("end", Null, FALSE, FALSE, e)
        /\ Ran("endBatch", FALSE)
        /\ UNCHANGED wbDepth

\* withBatch(fn) up to the call of fn: startBatch() has run.
WithBatchCall ==
    LET e == startBatch(Engine)
    IN  /\ wbDepth < MaxWb
        /\ batchCountRef < MaxDepth
        /\ Becomes(e)
        /\ Observed("withBatch", FALSE, e)
        /\ Tracked("call", Null, FALSE, FALSE, e)
        /\ Ran("withBatch", FALSE)
        /\ wbDepth' = wbDepth + 1

\* fn returned: finally runs endBatch(), withBatch returns fn's result.
WithBatchReturn ==
    LET e == withBatchExit(Engine, options, FALSE)
    IN  /\ wbDepth > 0
        /\ Becomes(e)
        /\ Observed("withBatchReturn", FALSE, e)
        /\ Tracked("exit", Null, FALSE, FALSE, e)
        /\ Ran("withBatchReturn", FALSE)
        /\ wbDepth' = wbDepth - 1

\* fn threw: catch sets the error flag, finally runs endBatch() and rethrows.
WithBatchThrow ==
    LET e == withBatchExit(Engine, options, TRUE)
    IN  /\ wbDepth > 0
        /\ Becomes(e)
        /\ Observed("withBatchThrow", FALSE, e)
        /\ Tracked("exit", Null, FALSE, TRUE, e)
        /\ Ran("withBatchThrow", FALSE)
        /\ wbDepth' = wbDepth - 1

Next ==
    \/ \E v \in Vals(T), sameRef \in BOOLEAN :
        /\ sameRef => (v.t = "object" /\ v = state.present)
        /\ Set(v, sameRef)
    \/ Undo
    \/ Redo
    \/ \E v \in Vals(T) : Reset(v)
    \/ StartBatch
    \/ EndBatch
    \/ WithBatchCall
    \/ WithBatchReturn
    \/ WithBatchThrow

vars == <<T, options, state, batchCountRef, batchInitialValueRef,
          batchLastValueRef, errorInWithBatchRef, wbDepth, fired,
          watch, last, bt, setRun>>

\* Spec observes the set calls, SpecUndo the undo calls, SpecRedo the redo
\* calls, SpecReset the reset calls, SpecEndBatch the endBatch calls,
\* SpecInBatch the undo and redo calls made while a batch is open,
\* SpecBatch the batches, SpecRun the runs of set calls.
Init == Created("set")
InitUndo == Created("undo")
InitRedo == Created("redo")
InitReset == Created("reset")
InitEndBatch == Created("endBatch")
InitInBatch == Created("inBatch")
InitBatch == Created("batch")
InitRun == Created("run")

Spec == Init /\ [][Next]_vars
SpecUndo == InitUndo /\ [][Next]_vars
SpecRedo == InitRedo /\ [][Next]_vars
SpecReset == InitReset /\ [][Next]_vars
SpecEndBatch == InitEndBatch /\ [][Next]_vars
SpecInBatch == InitInBatch /\ [][Next]_vars
SpecBatch == InitBatch /\ [][Next]_vars
SpecRun == InitRun /\ [][Next]_vars

(***************************************************************************)
(* What the specification expects, stated without the engine's operators.  *)
(***************************************************************************)
\* A sequence cut to its most recent cap entries; a cap that is undefined or
\* 0 cuts nothing (0 is falsy in "maxHistorySize && ...").
KeepLast(seq, cap) ==
    IF cap = Undefined \/ cap = 0 \/ Len(seq) <= cap THEN seq
    ELSE [i \in 1..cap |-> seq[Len(seq) - cap + i]]

\* The engine is Idle: no batch open and an empty batch context.
Idle ==
    /\ ~state.isBatching
    /\ batchCountRef = 0
    /\ ~errorInWithBatchRef
    /\ batchInitialValueRef = Null
    /\ batchLastValueRef = Null

\* A batch opened by startBatch() with no batch open, holding only set calls,
\* one of which changed present, has been closed by endBatch().
BatchOfSetsClosed ==
    bt.phase = "closed" /\ bt.by = "startBatch" /\ bt.sets = "eff"

\* The present differs from the value that was present when the batch opened.
LeftBaseline == ~isEqual(options.equalFn, bt.base, state.present)

(***************************************************************************)
(* C1.  Batch collapse: startBatch(); set(a); ...; set(c); endBatch() from  *)
(* a state with no batch open and present p, c not equal to p, leaves      *)
(* present = c and adds exactly one entry to past, the value p (the oldest *)
(* entries giving way under maxHistorySize), so that one undo() restores   *)
(* p with c as the redo target.  This holds for every p, falsy or not.     *)
(* The code does not meet it (see C1_BatchCollapse's trace).               *)
(***************************************************************************)
C1_BatchCollapse ==
    (BatchOfSetsClosed /\ LeftBaseline /\ options.maxHistorySize # 0) =>
        /\ state.present = bt.lastSet
        /\ historyPast(state) =
              KeepLast(Append(createLazyArray(bt.past0, state.isCompressed), bt.base),
                       options.maxHistorySize)
        /\ undo(Engine).state.present = bt.base
        /\ historyFuture(undo(Engine).state) = <<state.present>>

(***************************************************************************)
(* C2.  onSet once per batch: a batch of one or more set calls whose final *)
(* present differs from the baseline fires onSet exactly once, at the      *)
(* outermost endBatch, with (baseline, last value set), for every baseline *)
(* and last value, falsy or not.  The code does not meet it.               *)
(***************************************************************************)
C2_OnSetOncePerBatch ==
    (BatchOfSetsClosed /\ LeftBaseline) =>
        bt.cbs = <<Callback("onSet", bt.base, bt.lastSet)>>

(***************************************************************************)
(* C3.  Error resilience: withBatch(() => { set(x); throw err; }) called   *)
(* with no batch open and present p, x not equal to p, rethrows err and    *)
(* leaves canUndo true and present = x, for every p, falsy or not.  The    *)
(* code does not meet it.                                                  *)
(***************************************************************************)
C3_ErrorResilience ==
    (/\ bt.phase = "closed" /\ bt.by = "withBatch" /\ bt.pure /\ bt.threw
     /\ bt.sets = "eff" /\ LeftBaseline) =>
        /\ canUndo
        /\ state.present = bt.lastSet

(***************************************************************************)
(* C4.  withBatch cleanup: after withBatch(fn), called with no batch open, *)
(* has returned or thrown, whatever fn did, the engine is Idle.  The code  *)
(* does not meet it.                                                       *)
(***************************************************************************)
C4_WithBatchLeavesIdle ==
    (bt.phase = "closed" /\ bt.by = "withBatch") => Idle

(***************************************************************************)
(* C5.  Eviction invariant: with maxHistorySize = N, past.length <= N in   *)
(* every reachable state, whichever operation appended last.  Stated for   *)
(* N >= 1, the caps the eviction code acts on (N = 0 fails with the first  *)
(* set).  The code does not meet it: a set inside a batch appends to past  *)
(* without eviction while the error flag is set.                           *)
(***************************************************************************)
C5_EvictionInvariant ==
    options.maxHistorySize >= 1 => Len(state.past) <= options.maxHistorySize

C7_LinearityAnyValue ==
    last.op = "set" => state.future = <<>>

(***************************************************************************)
(* C7, amended.  After an undo, a set call whose value is not equal to     *)
(* present under equalFn, inside or outside a batch, leaves future empty.  *)
(***************************************************************************)
C7_Linearity ==
    (last.op = "set" /\ ~last.noop) => state.future = <<>>

\* An effective set has discarded a non-empty future.
C7_Witness ==
    last.op = "set" /\ ~last.noop /\ last.canRedo /\ ~canRedo

(***************************************************************************)
(* C8.  set outside a batch: with no batch open and a value v not equal to *)
(* present, set(v) appends the old present to past and cuts past to its    *)
(* most recent maxHistorySize entries, empties future, makes v the present *)
(* and fires onSet(old present, v) once; the old present is the entry that *)
(* undo will restore.                                                      *)
(***************************************************************************)
C8_SetOutsideBatch ==
    \A v \in Vals(T) :
        (~state.isBatching /\ ~isEqual(options.equalFn, state.present, v)) =>
            LET e == set(Engine, options, v, FALSE)
                after == historyPast(e.state)
            IN  /\ after = KeepLast(Append(historyPast(state), state.present),
                                    options.maxHistorySize)
                /\ after[Len(after)] = state.present
                /\ undo(e).state.present = state.present
                /\ e.state.future = <<>>
                /\ e.state.present = v
                /\ ~e.state.isBatching
                /\ e.fired = <<Callback("onSet", state.present, v)>>

\* A set outside a batch has just recorded an entry and fired onSet.
C8_Witness ==
    /\ last.op = "set" /\ ~last.noop /\ ~state.isBatching
    /\ Len(fired) = 1 /\ fired[1].cb = "onSet" /\ fired[1].next = state.present
    /\ Len(state.past) > 1

(***************************************************************************)
(* C9.  Idempotent no-op set: set(v) with equalFn(present, v) true, inside *)
(* or outside a batch, leaves past, present, future and isBatching as they *)
(* were and fires no onSet; a batch holding only such sets records no      *)
(* history entry.  The code does not meet the second part for objects      *)
(* under the default equalFn.                                              *)
(***************************************************************************)
C9_NoOpSet ==
    /\ \A v \in Vals(T), sameRef \in BOOLEAN :
        (/\ sameRef => (v.t = "object" /\ v = state.present)
         /\ equalsPresent(options.equalFn, state.present, v, sameRef)) =>
            LET e == set(Engine, options, v, sameRef)
            IN  e.state = state /\ e.fired = <<>>
    /\ (bt.phase = "closed" /\ bt.by = "startBatch" /\ bt.sets = "noop") =>
            state.past = bt.past0

(***************************************************************************)
(* C10.  undo: with past empty undo() changes nothing and fires nothing;   *)
(* otherwise the last entry of past is removed and its decoded value is    *)
(* the present, the old present is the first entry of future, the other    *)
(* entries keep their order and onUndo(old present, new present) fires     *)
(* once.  canUndo is true exactly when undo() changes the state.           *)
(***************************************************************************)
C10_Undo ==
    LET e == undo(Engine)
        before == historyPast(state)
    IN  /\ ~canUndo =>
              e.state = state /\ e.fired = <<>>
        /\ canUndo =>
              /\ historyPast(e.state) = SubSeq(before, 1, Len(before) - 1)
              /\ e.state.present = before[Len(before)]
              /\ historyFuture(e.state) = <<state.present>> \o historyFuture(state)
              /\ e.fired = <<Callback("onUndo", state.present, e.state.present)>>
        /\ canUndo <=> e.state # state

\* undo has just moved a value from past to the front of a non-empty future.
C10_Witness ==
    /\ last.op = "undo" /\ ~last.noop /\ last.canRedo
    /\ Len(fired) = 1 /\ fired[1].cb = "onUndo" /\ fired[1].next = state.present
    /\ Len(state.future) > 1

(***************************************************************************)
(* C11.  redo: with future empty redo() changes nothing and fires nothing; *)
(* otherwise the first entry of future is removed and its decoded value is *)
(* the present, the old present is the last entry of past, the other       *)
(* entries keep their order and onRedo(old present, new present) fires     *)
(* once.  canRedo is true exactly when redo() changes the state.           *)
(***************************************************************************)
C11_Redo ==
    LET e == redo(Engine)
        ahead == historyFuture(state)
    IN  /\ ~canRedo =>
              e.state = state /\ e.fired = <<>>
        /\ canRedo =>
              /\ historyFuture(e.state) = Tail(ahead)
              /\ e.state.present = ahead[1]
              /\ historyPast(e.state) = Append(historyPast(state), state.present)
              /\ e.fired = <<Callback("onRedo", state.present, e.state.present)>>
        /\ canRedo <=> e.state # state

\* redo has just moved the first of several future values to the present.
C11_Witness ==
    /\ last.op = "redo" /\ ~last.noop /\ last.canRedo
    /\ Len(fired) = 1 /\ fired[1].cb = "onRedo" /\ fired[1].next = state.present
    /\ canUndo /\ canRedo

(***************************************************************************)
(* C12.  Undo/redo symmetry: in every reachable state and for every k up   *)
(* to the length of past, k undo() calls followed by k redo() calls leave  *)
(* the decoded past, the present and the decoded future as they were; so   *)
(* set(v1); set(v2); undo(); redo() has the present of set(v1); set(v2).   *)
(***************************************************************************)
RECURSIVE Undos(_, _)
Undos(e, k) == IF k = 0 THEN e ELSE Undos(undo(e), k - 1)

RECURSIVE Redos(_, _)
Redos(e, k) == IF k = 0 THEN e ELSE Redos(redo(e), k - 1)

C12_UndoRedoSymmetry ==
    \A k \in 1..Len(state.past) :
        LET back == Undos(Engine, k)
            e == Redos(back, k)
        IN  /\ Len(back.state.past) = Len(state.past) - k
            /\ historyPast(e.state) = historyPast(state)
            /\ e.state.present = state.present
            /\ historyFuture(e.state) = historyFuture(state)

\* redo() calls have brought back every entry that undo() calls had taken
\* from a past of two or more entries.
C12_Witness ==
    /\ last.op = "redo" /\ ~last.noop /\ last.canRedo
    /\ Len(state.past) > 1 /\ ~canRedo
    /\ Len(fired) = 1 /\ fired[1].cb = "onRedo"

(***************************************************************************)
(* C13.  Nested batch: while an outer batch is open, an inner              *)
(* startBatch() ... endBatch() pair, or an inner withBatch that returns,   *)
(* leaves past as it was, fires no onSet and leaves isBatching true; and   *)
(* from an Idle engine with present p the sequence startBatch(); set(v1);  *)
(* startBatch(); set(v2); endBatch(); endBatch() that ends with a present  *)
(* other than p adds exactly one entry, p, to past.  The code does not     *)
(* meet it.                                                                *)
(***************************************************************************)
\* An inner batch holding set(v): opened by startBatch(), closed by
\* endBatch() or by the finally block of a withBatch whose fn returned.
InnerBatch(e, v, viaWithBatch) ==
    LET inner == set(startBatch(e), options, v, FALSE)
    IN  IF viaWithBatch THEN withBatchExit(inner, options, FALSE)
        ELSE endBatch(inner, options)

C13_InnerBatchKeepsPast ==
    \A v \in Vals(T), viaWithBatch \in BOOLEAN :
        (state.isBatching /\ batchCountRef >= 1) =>
            LET e == InnerBatch(Engine, v, viaWithBatch)
            IN  /\ e.state.past = state.past
                /\ e.fired = <<>>
                /\ e.state.isBatching

C13_NestedBatchOneEntry ==
    \A v1, v2 \in Vals(T), viaWithBatch \in BOOLEAN :
        LET outer == set(startBatch(Engine), options, v1, FALSE)
            e == endBatch(InnerBatch(outer, v2, viaWithBatch), options)
        IN  (Idle /\ ~isEqual(options.equalFn, state.present, e.state.present)) =>
                /\ historyPast(e.state) =
                      KeepLast(Append(historyPast(state), state.present),
                               options.maxHistorySize)
                /\ ~e.state.isBatching

C13_NestedBatch == C13_InnerBatchKeepsPast /\ C13_NestedBatchOneEntry

(***************************************************************************)
(* C14.  No-op batch: when the outermost endBatch() finds present equal to *)
(* the batch baseline under equalFn, past is unchanged, no onSet fires,    *)
(* isBatching becomes false and the batch context is cleared.  The code    *)
(* does not meet the last part for a falsy baseline.                       *)
(***************************************************************************)
\* The next endBatch() is the outermost one and finds present equal to the
\* baseline.
EndsUnchangedBatch ==
    /\ state.isBatching
    /\ batchCountRef = 1
    /\ isEqual(options.equalFn, batchInitialValueRef, state.present)

C14_NoOpBatchKeepsHistory ==
    EndsUnchangedBatch =>
        LET e == endBatch(Engine, options)
        IN  /\ e.state.past = state.past
            /\ e.state.future = state.future
            /\ e.state.present = state.present
            /\ e.fired = <<>>
            /\ ~e.state.isBatching

C14_NoOpBatch ==
    /\ C14_NoOpBatchKeepsHistory
    /\ EndsUnchangedBatch =>
          LET e == endBatch(Engine, options)
          IN  /\ e.batchCountRef = 0
              /\ e.batchInitialValueRef = Null
              /\ e.batchLastValueRef = Null
              /\ ~e.errorInWithBatchRef

(***************************************************************************)
(* C15.  reset: in every reachable state, a batch open at any depth and    *)
(* the error flag set included, reset(v) leaves past and future empty,     *)
(* present = v, isBatching false, isCompressed equal to the                *)
(* compressHistory option, nesting depth 0 and the batch context cleared;  *)
(* canUndo and canRedo are false afterwards.                               *)
(***************************************************************************)
C15_Reset ==
    \A v \in Vals(T) :
        LET e == reset(Engine, options, v)
        IN  /\ e.state = [past |-> <<>>, present |-> v, future |-> <<>>,
                          isCompressed |-> options.compressHistory,
                          isBatching |-> FALSE]
            /\ e.batchCountRef = 0
            /\ e.batchInitialValueRef = Null
            /\ e.batchLastValueRef = Null
            /\ ~e.errorInWithBatchRef
            /\ e.fired = <<>>

\* reset, called by withBatch's fn, has discarded a history that had a
\* future and has left the engine Idle.
C15_Witness ==
    /\ last.op = "reset" /\ last.canRedo /\ wbDepth > 0
    /\ Idle /\ ~canUndo /\ ~canRedo

(***************************************************************************)
(* C16.  Callbacks outside a batch: with no batch open, an effective set,  *)
(* undo or redo invokes its own callback exactly once, with (present       *)
(* before the operation, present after it), and invokes no other callback; *)
(* a set, undo or redo that changes nothing invokes none.  Over a sequence *)
(* of such operations the invocations of each callback therefore number    *)
(* the effective operations of its kind.                                   *)
(***************************************************************************)
\* e invoked exactly the callback name, once, reporting the step from the
\* current present to e's present.
FiredOnce(e, name) ==
    /\ Len(e.fired) = 1
    /\ e.fired[1].cb = name
    /\ e.fired[1].prev = state.present
    /\ e.fired[1].next = e.state.present

C16_CallbacksOutsideBatch ==
    ~state.isBatching =>
        /\ \A v \in Vals(T), sameRef \in BOOLEAN :
              (sameRef => (v.t = "object" /\ v = state.present)) =>
                  LET e == set(Engine, options, v, sameRef)
                  IN  IF equalsPresent(options.equalFn, state.present, v, sameRef)
                      THEN e.fired = <<>>
                      ELSE FiredOnce(e, "onSet") /\ e.state.present = v
        /\ LET e == undo(Engine)
           IN  IF canUndo THEN FiredOnce(e, "onUndo") ELSE e.fired = <<>>
        /\ LET e == redo(Engine)
           IN  IF canRedo THEN FiredOnce(e, "onRedo") ELSE e.fired = <<>>

\* With no batch open a redo has just invoked onRedo, after the set and the
\* undo that gave it a value to restore.
C16_Witness ==
    /\ last.op = "redo" /\ ~last.noop
    /\ ~state.isBatching /\ batchCountRef = 0 /\ wbDepth = 0
    /\ Len(fired) = 1 /\ fired[1].cb = "onRedo"
    /\ fired[1].prev = historyPast(state)[Len(state.past)]
    /\ fired[1].next = state.present

(***************************************************************************)
(* C17.  Compression round trip: in both encoding modes c, decoding the    *)
(* encoding of a value gives the value back, decode(encode(v, c), c) = v;  *)
(* so set(a); undo() restores the present that set replaced, and the entry *)
(* set adds to history.past and the entry undo adds to history.future read *)
(* back as the original values.                                            *)
(***************************************************************************)
C17_RoundTrip ==
    /\ \A c \in BOOLEAN, v \in AllVals :
          decompressFn(compressFn(c, v), c) = v
    /\ \A a \in Vals(T) :
          (~state.isBatching /\ ~isEqual(options.equalFn, state.present, a)) =>
              LET e == set(Engine, options, a, FALSE)
                  u == undo(e)
              IN  /\ historyPast(e.state)[Len(e.state.past)] = state.present
                  /\ u.state.present = state.present
                  /\ historyFuture(u.state) = <<a>>
                  /\ historyPast(u.state) =
                        SubSeq(historyPast(e.state), 1, Len(e.state.past) - 1)

\* With compressHistory true, undo has restored an object from its JSON
\* text and stored the object it replaced as JSON text.
C17_Witness ==
    /\ last.op = "undo" /\ ~last.noop
    /\ options.compressHistory /\ state.isCompressed
    /\ state.present.t = "object"
    /\ state.future # <<>> /\ state.future[1].t = "string"
    /\ Len(fired) = 1 /\ fired[1].next = state.present
    /\ historyFuture(state)[1] = fired[1].prev

(***************************************************************************)
(* C18, as claimed.  Lazy history view: every way of reading history.past  *)
(* and history.future observes decoded values, a read of a property        *)
(* descriptor included.  Such a read gives the stored JSON text.           *)
(***************************************************************************)
\* Every read of the view through the get trap observes the stored length
\* and the decoded elements.
ReadsDecoded(items, c) ==
    LET decoded == [i \in 1..Len(items) |-> decompressFn(items[i], c)]
    IN  /\ lazyLength(items) = Len(items)
        /\ \A i \in 1..Len(items) : lazyIndex(items, c, i) = decoded[i]
        /\ lazyIterate(items, c) = decoded
        /\ lazyMethod(items, c) = decoded
        /\ createLazyArray(items, c) = decoded
        /\ c => \A i \in 1..Len(items) :
                  /\ lazyIndex(items, c, i) # items[i]
                  /\ lazyIterate(items, c)[i] # items[i]
                  /\ lazyMethod(items, c)[i] # items[i]

OwnPropertiesDecoded(items, c) ==
    \A i \in 1..Len(items) : lazyOwnProperty(items, i) = decompressFn(items[i], c)

C18_LazyViewAnyAccess ==
    /\ ReadsDecoded(state.past, state.isCompressed)
    /\ ReadsDecoded(state.future, state.isCompressed)
    /\ OwnPropertiesDecoded(state.past, state.isCompressed)
    /\ OwnPropertiesDecoded(state.future, state.isCompressed)

(***************************************************************************)
(* C18, amended.  For history.past and history.future in both encoding     *)
(* modes, length is the stored length, and indexed read, iteration and     *)
(* map/forEach/filter/slice all observe the same decoded values, element i *)
(* being decode(stored[i], isCompressed); none of these reads gives a      *)
(* stored JSON text.                                                       *)
(***************************************************************************)
C18_LazyView ==
    /\ ReadsDecoded(state.past, state.isCompressed)
    /\ ReadsDecoded(state.future, state.isCompressed)

\* Both views hold JSON texts: undo has left entries in past and in future.
C18_Witness ==
    /\ last.op = "undo" /\ ~last.noop
    /\ state.isCompressed /\ canUndo /\ canRedo
    /\ state.past[1].t = "string" /\ state.future[1].t = "string"
    /\ lazyIndex(state.past, state.isCompressed, 1) # state.past[1]
    /\ lazyIterate(state.future, state.isCompressed) # state.future

(***************************************************************************)
(* C19.  endBatch with no open batch is a no-op: whenever isBatching is    *)
(* false, endBatch() leaves past, present, future, isCompressed and        *)
(* isBatching as they were, leaves the depth, the baseline, the last value *)
(* and the error flag as they were, and fires no callback.                 *)
(***************************************************************************)
C19_EndBatchNoBatch ==
    ~state.isBatching =>
        LET e == endBatch(Engine, options)
        IN  /\ e.state = state
            /\ e.batchCountRef = batchCountRef
            /\ e.batchInitialValueRef = batchInitialValueRef
            /\ e.batchLastValueRef = batchLastValueRef
            /\ e.errorInWithBatchRef = errorInWithBatchRef
            /\ e.fired = <<>>

\* endBatch() was called with no batch open while the depth counter and the
\* baseline were still set; they are as they were.
C19_Witness ==
    /\ last.op = "endBatch" /\ last.noop
    /\ ~state.isBatching /\ batchCountRef > 0 /\ batchInitialValueRef # Null
    /\ fired = <<>>

(***************************************************************************)
(* C20.  Balanced batching returns to Idle: a sequence of set, undo, redo, *)
(* startBatch and endBatch calls that starts Idle and matches every        *)
(* startBatch() with a later endBatch() ends with isBatching false and     *)
(* the nesting depth 0.  The sequences taken here are startBatch(), one    *)
(* call of set, undo or redo, endBatch(), from every reachable Idle state. *)
(***************************************************************************)
InBatchCalls ==
    {[op |-> "undo"], [op |-> "redo"]}
        \cup {[op |-> "set", value |-> v] : v \in AllVals}

InBatchCall(e, c) ==
    CASE c.op = "undo" -> undo(e)
      [] c.op = "redo" -> redo(e)
      [] OTHER -> set(e, options, c.value, FALSE)

C20_BalancedBatchIdle ==
    Idle =>
        \A c \in InBatchCalls :
            LET e == endBatch(InBatchCall(startBatch(Engine), c), options)
            IN  ~e.state.isBatching /\ e.batchCountRef = 0

\* The same sequences with set as the only call inside the batch: the batch
\* is closed and the depth is 0.
C20_BalancedSetOnly ==
    Idle =>
        \A v \in AllVals :
            LET e == endBatch(set(startBatch(Engine), options, v, FALSE),
                              options)
            IN  ~e.state.isBatching /\ e.batchCountRef = 0

(***************************************************************************)
(* C21.  A set inside an open batch never touches past and never fires a   *)
(* callback: whenever isBatching is true and equalFn(present, v) is false, *)
(* set(v) changes only present (to v), future (to empty) and the batch's   *)
(* last value; past, isCompressed and isBatching are as they were and      *)
(* onSet is not invoked, in every reachable state of the batch context.    *)
(* The code does not meet it when the error flag is set.                   *)
(***************************************************************************)
AbsorbedByBatch(e, v) ==
    /\ e.state = [state EXCEPT !.present = v, !.future = <<>>]
    /\ e.batchLastValueRef = v
    /\ e.batchCountRef = batchCountRef
    /\ e.batchInitialValueRef = batchInitialValueRef
    /\ e.errorInWithBatchRef = errorInWithBatchRef
    /\ e.fired = <<>>

C21_SetInBatch ==
    state.isBatching =>
        \A v \in Vals(T) :
            ~isEqual(options.equalFn, state.present, v) =>
                AbsorbedByBatch(set(Engine, options, v, FALSE), v)

\* The same with the error flag clear, or the baseline falsy.
C21_SetInBatchNoError ==
    (state.isBatching /\ ~(errorInWithBatchRef /\ Truthy(batchInitialValueRef))) =>
        \A v \in Vals(T) :
            ~isEqual(options.equalFn, state.present, v) =>
                AbsorbedByBatch(set(Engine, options, v, FALSE), v)

(***************************************************************************)
(* C22.  Force-close on error: when withBatch's fn throws while the        *)
(* nesting depth is n > 1, the endBatch run by withBatch closes the whole  *)
(* batch at once, whatever n is: afterwards isBatching is false, the depth *)
(* is 0 and the batch context is cleared (the engine is Idle).  The code   *)
(* does not meet it.                                                       *)
(***************************************************************************)
IdleEngine(e) ==
    /\ ~e.state.isBatching
    /\ e.batchCountRef = 0
    /\ ~e.errorInWithBatchRef
    /\ e.batchInitialValueRef = Null
    /\ e.batchLastValueRef = Null

C22_ForceClose ==
    (wbDepth > 0 /\ state.isBatching /\ batchCountRef > 1) =>
        IdleEngine(withBatchExit(Engine, options, TRUE))

\* What the endBatch of a throwing fn does at depth n > 1: it clears the error
\* flag, lowers the depth by one and leaves the batch open.
C22_ForceCloseLeavesOpen ==
    (wbDepth > 0 /\ state.isBatching /\ batchCountRef > 1) =>
        LET e == withBatchExit(Engine, options, TRUE)
        IN  /\ e.state.isBatching
            /\ e.batchCountRef = batchCountRef - 1
            /\ ~e.errorInWithBatchRef

(***************************************************************************)
(* C23.  undo and redo close an open batch: after an undo() with a         *)
(* non-empty past or a redo() with a non-empty future, called while        *)
(* isBatching is true, isBatching is false, and a following set() of a     *)
(* value that differs from present records its own history entry (the      *)
(* value that was present) and fires onSet.  The depth counter and the     *)
(* baseline are left as they were.                                         *)
(***************************************************************************)
RecordsOwnEntry(e, v) ==
    LET e2 == set([e EXCEPT !.fired = <<>>], options, v, FALSE)
    IN  /\ historyPast(e2.state) =
              KeepLast(Append(historyPast(e.state), e.state.present),
                       options.maxHistorySize)
        /\ e2.state.present = v
        /\ e2.fired = <<[cb |-> "onSet", prev |-> e.state.present, next |-> v]>>

ClosesBatch(e) ==
    /\ ~e.state.isBatching
    /\ e.batchCountRef = batchCountRef
    /\ e.batchInitialValueRef = batchInitialValueRef
    /\ \A v \in Vals(T) :
          ~isEqual(options.equalFn, e.state.present, v) => RecordsOwnEntry(e, v)

C23_UndoRedoCloseBatch ==
    state.isBatching =>
        /\ canUndo => ClosesBatch(undo(Engine))
        /\ canRedo => ClosesBatch(redo(Engine))

\* The claim as stated: also with nothing to undo or to redo.
C23_UndoRedoAlwaysCloseBatch ==
    state.isBatching =>
        /\ ~undo(Engine).state.isBatching
        /\ ~redo(Engine).state.isBatching

\* An undo() that had something to undo was called inside a batch: the batch
\* is closed, its depth counter is not 0.
C23_Witness ==
    /\ last.op = "undo" /\ ~last.noop
    /\ ~state.isBatching /\ batchCountRef > 0
    /\ fired # <<>> /\ fired[1].cb = "onUndo"

(***************************************************************************)
(* C24.  equalFn failure inside withBatch: when the caller's equalFn       *)
(* throws during a set called from withBatch's fn, and may throw again on  *)
(* later calls, the exception reaches the caller only after the batch has  *)
(* been closed: afterwards isBatching is false and the depth is 0.  A set  *)
(* whose equalFn throws changes nothing, so the engine that withBatch's    *)
(* catch block finds is the one fn left.  The code does not meet it.       *)
(***************************************************************************)
Closed(e) == ~e.state.isBatching /\ e.batchCountRef = 0

C24_EqualFnFailure ==
    (wbDepth > 0 /\ state.isBatching /\ options.equalFn = "byId") =>
        \A call \in 0..2 :
            Closed(withBatchExitEqualFnThrows(Engine, options, call))

\* The same when equalFn throws once only and the batch is one level deep.
C24_EqualFnFailsOnce ==
    (wbDepth > 0 /\ state.isBatching /\ options.equalFn = "byId"
     /\ batchCountRef = 1) =>
        Closed(withBatchExitEqualFnThrows(Engine, options, 0))

(***************************************************************************)
(* C25.  Encoding uniformity: state.isCompressed changes only at           *)
(* construction and reset; while past or future is non-empty it keeps its  *)
(* value, and every entry of past and future was encoded in the mode       *)
(* state.isCompressed indicates, also when the compressHistory option is   *)
(* changed on a live engine between operations (the render that follows    *)
(* refreshes optionsRef.current, lines 90-106).  The code does not meet it.*)
(***************************************************************************)
EncodedAs(entry, compressed) ==
    IF compressed THEN \E v \in AllVals : entry = compress(v)
    ELSE entry \in AllVals

Uniform(st) ==
    /\ \A i \in 1..Len(st.past) : EncodedAs(st.past[i], st.isCompressed)
    /\ \A i \in 1..Len(st.future) : EncodedAs(st.future[i], st.isCompressed)

\* The options after a render with compressHistory = c.
Rerendered(c) == [options EXCEPT !.compressHistory = c]

KeepsEncoding(e) ==
    /\ (canUndo \/ canRedo) => e.state.isCompressed = state.isCompressed
    /\ Uniform(e.state)

C25_EncodingUniformity ==
    \A c \in BOOLEAN :
        /\ \A v \in Vals(T) : KeepsEncoding(set(Engine, Rerendered(c), v, FALSE))
        /\ KeepsEncoding(undo(Engine))
        /\ KeepsEncoding(redo(Engine))
        /\ KeepsEncoding(startBatch(Engine))
        /\ KeepsEncoding(endBatch(Engine, Rerendered(c)))

\* With the option left as it was at construction, every state is uniform
\* and isCompressed is the option.
C25_UniformUnderFixedOption ==
    Uniform(state) /\ state.isCompressed = options.compressHistory

(***************************************************************************)
(* C26.  Pure transitions: each of set, undo, redo, startBatch and         *)
(* endBatch computes its next state from the prior state and its input     *)
(* alone; evaluating the same updater twice on the same prior state, as a  *)
(* binding layer that re-invokes state updaters does, gives the same next  *)
(* state and the same batch context as evaluating it once.  The code does  *)
(* not meet it: the updaters of startBatch and endBatch write the refs.    *)
(***************************************************************************)
\* The engine the second evaluation finds: the prior state, the refs as the
\* first evaluation (whose result is once) left them.
Reinvoked(once) == [once EXCEPT !.state = state, !.fired = <<>>]

SameOutcome(twice, once) ==
    /\ twice.state = once.state
    /\ twice.batchCountRef = once.batchCountRef
    /\ twice.batchInitialValueRef = once.batchInitialValueRef
    /\ twice.batchLastValueRef = once.batchLastValueRef
    /\ twice.errorInWithBatchRef = once.errorInWithBatchRef

SetUndoRedoRepeatable ==
    /\ \A v \in Vals(T) :
          SameOutcome(set(Reinvoked(set(Engine, options, v, FALSE)), options, v, FALSE),
                      set(Engine, options, v, FALSE))
    /\ SameOutcome(undo(Reinvoked(undo(Engine))), undo(Engine))
    /\ SameOutcome(redo(Reinvoked(redo(Engine))), redo(Engine))

C26_PureTransitions ==
    /\ SetUndoRedoRepeatable
    /\ SameOutcome(startBatch(Reinvoked(startBatch(Engine))), startBatch(Engine))
    /\ SameOutcome(endBatch(Reinvoked(endBatch(Engine, options)), options),
                   endBatch(Engine, options))

\* set, undo and redo alone give the same outcome when evaluated twice.
C26_SetUndoRedoRepeatable == SetUndoRedoRepeatable

\* endBatch evaluated twice gives the same next state.  It does not: the
\* first evaluation of a committing endBatch clears the baseline, the second
\* then returns at line 312 without the history entry.
C26_EndBatchSameState ==
    endBatch(Reinvoked(endBatch(Engine, options)), options).state
        = endBatch(Engine, options).state

(***************************************************************************)
(* C27.  withBatch(fn) passes to fn the engine's present value at the      *)
(* moment the batch opens, also when set, undo or redo was called earlier  *)
(* in the same event handler, that is since the last render.  Here state   *)
(* is the state of the last render and the handler makes one call before   *)
(* withBatch.  The code does not meet it.                                  *)
(***************************************************************************)
HandlerCalls ==
    {[op |-> "undo"], [op |-> "redo"]}
        \cup {[op |-> "set", value |-> v] : v \in Vals(T)}

C27_WithBatchArgument ==
    \A c \in HandlerCalls :
        withBatchFnArgument(state)
            = startBatch(InBatchCall(Engine, c)).state.present

\* With no call between the render and withBatch, fn receives the present
\* value of the engine.
C27_ArgumentAfterRender ==
    withBatchFnArgument(state) = startBatch(Engine).state.present

(***************************************************************************)
(* C28.  The batching flag mirrors the depth counter: in every reachable   *)
(* state, after every operation, isBatching is true if and only if the     *)
(* nesting depth counter is greater than 0.  The code does not meet it.    *)
(***************************************************************************)
C28_FlagMirrorsDepth == state.isBatching <=> batchCountRef > 0

\* One direction: an open batch has a depth greater than 0.
C28_OpenBatchHasDepth == state.isBatching => batchCountRef > 0

(***************************************************************************)
(* C29.  Fresh baseline: whenever a startBatch() call turns isBatching     *)
(* from false to true, the baseline recorded in the batch context equals   *)
(* the present value at that moment, never a baseline left over from an    *)
(* earlier batch.  The code does not meet it.                              *)
(***************************************************************************)
C29_FreshBaseline ==
    ~state.isBatching =>
        LET e == startBatch(Engine)
        IN  /\ e.state.isBatching
            /\ e.batchInitialValueRef = state.present

\* The same from a depth counter of 0.
C29_FreshBaselineFromDepthZero ==
    (~state.isBatching /\ batchCountRef = 0) =>
        LET e == startBatch(Engine)
        IN  /\ e.state.isBatching
            /\ e.batchInitialValueRef = state.present
            /\ e.batchLastValueRef = state.present

(***************************************************************************)
(* C30.  onSet reports the real transition: whenever onSet(prev, next)     *)
(* fires, from a plain set or from a batch commit after any interleaving   *)
(* of operations, next equals the present value right after the operation  *)
(* and prev equals the value that was present before the set or before the *)
(* batch opened.  The code does not meet it for batch commits.             *)
(***************************************************************************)
RECURSIVE EndBatches(_, _)
EndBatches(e, k) == IF k = 0 THEN e ELSE EndBatches(endBatch(e, options), k - 1)

\* Every onSet call in fired carries (prev, next).
OnSetReports(firedCalls, prev, next) ==
    \A i \in 1..Len(firedCalls) :
        firedCalls[i].cb = "onSet" =>
            firedCalls[i].prev = prev /\ firedCalls[i].next = next

\* A set with no batch open.
C30_OnSetOfPlainSet ==
    ~state.isBatching =>
        \A v \in Vals(T) :
            LET e == set(Engine, options, v, FALSE)
            IN  OnSetReports(e.fired, state.present, e.state.present)

\* The onSet of an endBatch: next is the present value after it.
C30_OnSetOfCommitNext ==
    LET e == endBatch(Engine, options)
    IN  \A i \in 1..Len(e.fired) :
            e.fired[i].cb = "onSet" => e.fired[i].next = e.state.present

\* startBatch() with no batch open, one set, and as many endBatch() calls as
\* the depth counter asks for: prev is the value present at startBatch().
C30_OnSetOfCommitPrev ==
    ~state.isBatching =>
        \A v \in Vals(T) :
            LET opened == set(startBatch(Engine), options, v, FALSE)
                e == EndBatches(opened, opened.batchCountRef)
            IN  OnSetReports(e.fired, state.present, e.state.present)

C30_OnSetRealTransition ==
    C30_OnSetOfPlainSet /\ C30_OnSetOfCommitNext /\ C30_OnSetOfCommitPrev

(***************************************************************************)
(* C31.  A caught inner error keeps the batch collapse: when an inner      *)
(* withBatch throws inside an outer open batch and the caller catches the  *)
(* exception and continues the outer batch, then after the outer endBatch  *)
(* the whole sequence has added exactly one entry (the value present       *)
(* before the outer batch) to past and fired onSet exactly once if the     *)
(* final present differs from that value, and has added no entry and fired *)
(* no onSet if the final present equals it.  The sequences taken here,     *)
(* from every reachable Idle state: startBatch(); set(a); withBatch(() =>  *)
(* { set(b); throw }) caught; set(c); endBatch().  The code does not meet  *)
(* it.                                                                     *)
(***************************************************************************)
CaughtInnerError(a, b, c) ==
    LET outer == set(startBatch(Engine), options, a, FALSE)
        inner == set(startBatch(outer), options, b, FALSE)
        caught == withBatchExit(inner, options, TRUE)
    IN  endBatch(set(caught, options, c, FALSE), options)

OneEntryOneOnSet(e) ==
    /\ historyPast(e.state) =
          KeepLast(Append(historyPast(state), state.present),
                   options.maxHistorySize)
    /\ Len(OnSets(e.fired)) = 1

NoEntryNoOnSet(e) ==
    /\ e.state.past = state.past
    /\ OnSets(e.fired) = <<>>

C31_CaughtInnerError ==
    Idle =>
        \A a, b, c \in Vals(T) :
            LET e == CaughtInnerError(a, b, c)
            IN  IF isEqual(options.equalFn, state.present, e.state.present)
                THEN NoEntryNoOnSet(e)
                ELSE OneEntryOneOnSet(e)

\* The part for a final present that differs, for rows compared by their id
\* (truthy values, an equalFn that recognises the entry it stored), when the
\* newest entry of past is not equal to present.
C31_CaughtInnerErrorChanged ==
    (/\ Idle /\ options.equalFn = "byId"
     /\ (canUndo => ~byId(state.past[Len(state.past)], state.present))) =>
        \A a, b, c \in Vals(T) :
            LET e == CaughtInnerError(a, b, c)
            IN  (/\ ~isEqual(options.equalFn, state.present, e.state.present)
                 /\ Truthy(e.state.present))
                    => OneEntryOneOnSet(e)

(***************************************************************************)
(* C32.  reset is equivalent to fresh construction: after reset(v), called *)
(* at any point of any operation sequence, also from inside withBatch's fn *)
(* and followed by a throw, every subsequent sequence of operations gives  *)
(* the same past, present, future, isBatching and callback invocations as  *)
(* the same sequence on a newly created engine with initial value v and    *)
(* the same options.  What later operations do depends on the state and    *)
(* the four refs only, so an engine equal to the new one in those behaves  *)
(* as the new one; the sequence startBatch(); set(x) tells apart an engine *)
(* whose error flag is set.  The code does not meet it.                    *)
(***************************************************************************)
\* useUndoRedo(v, options) just constructed.
NewEngine(v) ==
    [state |-> [past |-> <<>>,
                present |-> safeStructuredClone(v),
                future |-> <<>>,
                isCompressed |-> options.compressHistory,
                isBatching |-> FALSE],
     batchCountRef |-> 0,
     batchInitialValueRef |-> Null,
     batchLastValueRef |-> Null,
     errorInWithBatchRef |-> FALSE,
     fired |-> <<>>]

\* startBatch(); set(x) gives on e what it gives on the new engine.
SameBatchedSet(e, v) ==
    \A x \in Vals(T) :
        LET here == set(startBatch(e), options, x, FALSE)
            new == set(startBatch(NewEngine(v)), options, x, FALSE)
        IN  here.state = new.state /\ here.fired = new.fired

\* reset(v) at any point; reset(v) inside fn, which then returns.
C32_ResetThenReturn ==
    \A v \in Vals(T) :
        /\ reset(Engine, options, v) = NewEngine(v)
        /\ wbDepth > 0 =>
              withBatchExit(reset(Engine, options, v), options, FALSE) = NewEngine(v)

\* reset(v) inside fn, which then throws.
C32_ResetThenThrow ==
    wbDepth > 0 =>
        \A v \in Vals(T) :
            SameBatchedSet(withBatchExit(reset(Engine, options, v), options, TRUE), v)

C32_ResetIsFreshConstruction == C32_ResetThenReturn /\ C32_ResetThenThrow

====
